---- MODULE Spec2Model ----
(***************************************************************************)
(* Model of the test fixtures (tests/conftest.py) and of the schema layer  *)
(* (store/schemas/base.py, store/schemas/product.py).                      *)
(*                                                                         *)
(* Spec       : one pytest session over the fixtures mongo_client and      *)
(*              clear_collections, against a database of four collections. *)
(* SchemaSpec : constructions of BaseSchemaMixin and ProductIn.            *)
(***************************************************************************)
EXTENDS Integers, Sequences, FiniteSets, TLC

VARIABLES
    \* ---- the pytest session (tests/conftest.py) ----
    pc,                 \* position of the session
    testIdx,            \* number of the test being run, from 1
    client,             \* "none" | "open" | "closed": the AsyncIOMotorClient
    created,            \* how many times line 11 ran
    closed,             \* how many times line 13 ran
    db,                 \* collection name -> set of documents
    snapshot,           \* db as the last phase left it: the test body during the
                        \* cleanup, the previous cleanup before the next body
    collections_names,  \* the local of clear_collections, line 20
    idx,                \* position of the for loop of line 21 in collections_names
    outcome,            \* outcome of the current test's setup/call phase
    teardown,           \* "none" | "passed" | "error": the teardown phase's report
    raised,             \* the error raised inside the try block, or "none"
    failedAt,           \* index of the collection whose delete_many raised, or 0
    deleteCalls,        \* delete_many calls made by the current cleanup
    \* ---- the schema layer (store/schemas) ----
    call,               \* "none" | "BaseSchemaMixin" | "ProductIn" | "product_in"
    kwargs,             \* keyword arguments of the last construction
    result,             \* the record constructed, or ValidationError
    factories,          \* fields whose default_factory ran in the last construction
    clock               \* the wall clock, in ticks

sessionVars == <<pc, testIdx, client, created, closed, db, snapshot,
                 collections_names, idx, outcome, teardown, raised, failedAt,
                 deleteCalls>>
schemaVars == <<call, kwargs, result, factories, clock>>
vars == <<sessionVars, schemaVars>>

(***************************************************************************)
(* Bounds                                                                  *)
(***************************************************************************)
MaxTests == 2
MaxDocs == 1
MaxClock == 2

Docs == 1..MaxDocs

(***************************************************************************)
(* The database the fixtures run against                                   *)
(***************************************************************************)
\* Collection names are strings, held as sequences of characters.
Products == <<"p","r","o","d","u","c","t","s">>
Sys == <<"s","y","s">>
MySystem == <<"m","y","s","y","s","t","e","m">>
SystemViews == <<"s","y","s","t","e","m",".","v","i","e","w","s">>

Names == {Products, Sys, MySystem, SystemViews}

\* conftest.py:22  the literal "system"
SystemPrefix == <<"s","y","s","t","e","m">>

\* str.startswith
startswith(s, prefix) ==
    /\ Len(s) >= Len(prefix)
    /\ SubSeq(s, 1, Len(prefix)) = prefix

\* conftest.py:22-23  the collections the loop skips
SkipNothing(name) == FALSE
Skipped(name) == startswith(name, SystemPrefix)

\* list_collection_names() returns every collection once, in the server's order
Listings ==
    {s \in [1..Cardinality(Names) -> Names] :
        \A i, j \in 1..Cardinality(Names) : s[i] = s[j] => i = j}

\* The errors the driver calls of lines 20 and 25 raise, with their base classes.
Bases(err) ==
    CASE err = "ConfigurationError" ->
            {"ConfigurationError", "PyMongoError", "Exception", "BaseException"}
      [] err = "ServerSelectionTimeoutError" ->
            {"ServerSelectionTimeoutError", "AutoReconnect", "ConnectionFailure",
             "PyMongoError", "Exception", "BaseException"}
      [] err = "OperationFailure" ->
            {"OperationFailure", "PyMongoError", "Exception", "BaseException"}

DriverErrors == {"ConfigurationError", "ServerSelectionTimeoutError", "OperationFailure"}

\* conftest.py:26  except Exception
HandlesNarrow(err) == "ConnectionFailure" \in Bases(err)
Handles(err) == "Exception" \in Bases(err)

\* conftest.py:9  scope="session"
ScopeFunction == "function"
mongo_client_scope == "session"

Outcomes == {"passed", "failed", "error"}

(***************************************************************************)
(* The session                                                             *)
(***************************************************************************)
SessionInit ==
    /\ pc = "setup"
    /\ testIdx = 1
    /\ client = "none"
    /\ created = 0
    /\ closed = 0
    /\ db \in [Names -> SUBSET Docs]
    /\ snapshot = db
    /\ collections_names = <<>>
    /\ idx = 0
    /\ outcome = "none"
    /\ teardown = "none"
    /\ raised = "none"
    /\ failedAt = 0
    /\ deleteCalls = 0

SchemaIdle ==
    /\ call = "none"
    /\ kwargs = <<>>
    /\ result = [status |-> "none", errors |-> {}, fields |-> <<>>]
    /\ factories = {}
    /\ clock = 0

\* conftest.py:10-12  mongo_client up to its yield, when a test first asks for it
MongoClientSetup ==
    /\ UNCHANGED schemaVars
    /\ pc = "setup"
    /\ client # "open"
    /\ client' = "open"
    /\ created' = created + 1
    /\ UNCHANGED <<pc, testIdx, closed, db, snapshot, collections_names, idx,
                   outcome, teardown, raised, failedAt, deleteCalls>>

\* conftest.py:17-18  clear_collections up to its yield; the test can start
ClearCollectionsSetup ==
    /\ UNCHANGED schemaVars
    /\ pc = "setup"
    /\ client = "open"
    /\ pc' = "body"
    /\ UNCHANGED <<testIdx, client, created, closed, db, snapshot,
                   collections_names, idx, outcome, teardown, raised, failedAt,
                   deleteCalls>>

\* The test itself (and its other fixtures): it leaves the database in any
\* state and ends passed, failed or in error; line 18 then resumes.
TestBody ==
    /\ UNCHANGED schemaVars
    /\ pc = "body"
    /\ \E d \in [Names -> SUBSET Docs], o \in Outcomes :
        /\ db' = d
        /\ snapshot' = d
        /\ outcome' = o
    /\ pc' = "list"
    /\ collections_names' = <<>>
    /\ idx' = 0
    /\ teardown' = "none"
    /\ raised' = "none"
    /\ failedAt' = 0
    /\ deleteCalls' = 0
    /\ UNCHANGED <<testIdx, client, created, closed>>

\* An error leaves the try block of lines 19-27: caught at line 26 (and the
\* teardown ends normally) or propagated (and the teardown is reported in error).
RaiseAndGoOn(err) ==
    /\ raised' = err
    /\ teardown' = teardown
    /\ pc' = pc
Raise(err) ==
    /\ raised' = err
    /\ teardown' = IF Handles(err) THEN "passed" ELSE "error"
    /\ pc' = "finished"

\* conftest.py:20  get_database().list_collection_names(). The client of line 11
\* is built from a URI that names no database, for which get_database() raises
\* ConfigurationError; the server not answering raises the other errors.
ListCollectionNames ==
    /\ UNCHANGED schemaVars
    /\ pc = "list"
    /\ \/ /\ \E l \in Listings : collections_names' = l
          /\ idx' = 1
          /\ pc' = "loop"
          /\ UNCHANGED <<teardown, raised>>
       \/ /\ \E err \in DriverErrors : Raise(err)
          /\ UNCHANGED <<collections_names, idx>>
    /\ UNCHANGED <<testIdx, client, created, closed, db, snapshot, outcome,
                   failedAt, deleteCalls>>

\* conftest.py:22-23  a "system" collection is skipped
Continue ==
    /\ UNCHANGED schemaVars
    /\ pc = "loop"
    /\ idx <= Len(collections_names)
    /\ Skipped(collections_names[idx])
    /\ idx' = idx + 1
    /\ UNCHANGED <<pc, testIdx, client, created, closed, db, snapshot,
                   collections_names, outcome, teardown, raised, failedAt,
                   deleteCalls>>

\* conftest.py:25  get_database()[collection_name].delete_many({})
DeleteMany ==
    /\ UNCHANGED schemaVars
    /\ pc = "loop"
    /\ idx <= Len(collections_names)
    /\ ~Skipped(collections_names[idx])
    /\ LET name == collections_names[idx] IN
       \/ /\ db' = [db EXCEPT ![name] = {}]
          /\ idx' = idx + 1
          /\ deleteCalls' = deleteCalls + 1
          /\ UNCHANGED <<pc, teardown, raised, failedAt>>
       \/ \* the call raises, having deleted any part of the collection
          /\ \E err \in DriverErrors, left \in SUBSET db[name] :
                /\ db' = [db EXCEPT ![name] = left]
                /\ Raise(err)
          /\ failedAt' = idx
          /\ deleteCalls' = deleteCalls + 1
          /\ UNCHANGED idx
    /\ UNCHANGED <<testIdx, client, created, closed, snapshot, collections_names,
                   outcome>>

\* conftest.py:21  the for loop is exhausted; the try block ends normally
LoopExit ==
    /\ UNCHANGED schemaVars
    /\ pc = "loop"
    /\ idx > Len(collections_names)
    /\ pc' = "finished"
    /\ teardown' = "passed"
    /\ UNCHANGED <<testIdx, client, created, closed, db, snapshot,
                   collections_names, idx, outcome, raised, failedAt, deleteCalls>>

\* The next test of the session starts: the coroutine of clear_collections is
\* over and its locals are gone. A function-scoped mongo_client would be
\* finalised here (line 13); the session-scoped one stays open.
NextTest ==
    /\ UNCHANGED schemaVars
    /\ pc = "finished"
    /\ testIdx < MaxTests
    /\ testIdx' = testIdx + 1
    /\ pc' = "setup"
    /\ IF mongo_client_scope = "session"
       THEN UNCHANGED <<client, closed>>
       ELSE client' = "closed" /\ closed' = closed + 1
    /\ snapshot' = db
    /\ collections_names' = <<>>
    /\ idx' = 0
    /\ outcome' = "none"
    /\ teardown' = "none"
    /\ raised' = "none"
    /\ failedAt' = 0
    /\ deleteCalls' = 0
    /\ UNCHANGED <<created, db>>

\* conftest.py:13  the session ends; mongo_client resumes after its yield
MongoClientTeardown ==
    /\ UNCHANGED schemaVars
    /\ pc = "finished"
    /\ pc' = "done"
    /\ client' = "closed"
    /\ closed' = closed + 1
    /\ UNCHANGED <<testIdx, created, db, snapshot, collections_names, idx,
                   outcome, teardown, raised, failedAt, deleteCalls>>

SessionNext ==
    \/ MongoClientSetup
    \/ ClearCollectionsSetup
    \/ TestBody
    \/ ListCollectionNames
    \/ Continue
    \/ DeleteMany
    \/ LoopExit
    \/ NextTest
    \/ MongoClientTeardown

Init == SessionInit /\ SchemaIdle
Spec == Init /\ [][SessionNext]_vars

\* conftest.py:32  ddc287ef-ab93-4ef5-8336-78883c422f6a, as written and as hex digits
PIDSTR == <<"d","d","c","2","8","7","e","f","-","a","b","9","3","-","4","e","f","5","-","8","3","3","6","-","7","8","8","8","3","c","4","2","2","f","6","a">>
PIDUPPER == <<"D","D","C","2","8","7","E","F","-","A","B","9","3","-","4","E","F","5","-","8","3","3","6","-","7","8","8","8","3","C","4","2","2","F","6","A">>
PID == <<"d","d","c","2","8","7","e","f","a","b","9","3","4","e","f","5","8","3","3","6","7","8","8","8","3","c","4","2","2","f","6","a">>
\* two identifiers uuid.uuid4() can draw, and a version-1 identifier
GEN1 == <<"0","b","1","f","7","a","3","c","5","2","d","8","4","c","7","e","9","a","4","1","6","e","2","f","8","d","9","c","1","b","0","5">>
GEN2 == <<"9","e","4","d","2","c","6","a","7","f","3","1","4","b","8","a","8","c","5","5","1","a","2","b","3","c","4","d","5","e","6","f">>
V1 == <<"c","2","3","2","a","b","0","0","9","4","1","4","1","1","e","c","b","3","c","8","9","f","6","b","d","e","c","e","d","8","4","6">>
(***************************************************************************)
(* Values handed to and held by the schema classes                         *)
(*                                                                         *)
(* A value is [type, n, text]: type is the Python type's name; n holds an  *)
(* int, a bool (0, 1), a float in tenths (15 is 1.5) or a datetime's       *)
(* instant in clock ticks; text holds the characters of a str, the 32      *)
(* lower-case hex digits of a UUID or the tzinfo of a datetime.            *)
(***************************************************************************)
StrV(chars) == [type |-> "str", n |-> 0, text |-> chars]
IntV(i) == [type |-> "int", n |-> i, text |-> <<>>]
FloatV(tenths) == [type |-> "float", n |-> tenths, text |-> <<>>]
BoolV(b) == [type |-> "bool", n |-> IF b THEN 1 ELSE 0, text |-> <<>>]
NoneV == [type |-> "NoneType", n |-> 0, text |-> <<>>]
UuidV(hex) == [type |-> "UUID", n |-> 0, text |-> hex]
DatetimeV(instant, tz) == [type |-> "datetime", n |-> instant, text |-> <<tz>>]
\* a keyword argument that is not passed
Missing == [type |-> "missing", n |-> 0, text |-> <<>>]
\* the outcome of a validator that rejects its input
Invalid == [type |-> "invalid", n |-> 0, text |-> <<>>]

DigitChars == <<"0","1","2","3","4","5","6","7","8","9">>
HexChars == <<"0","1","2","3","4","5","6","7","8","9","a","b","c","d","e","f">>
LowerChars ==
    <<"a","b","c","d","e","f","g","h","i","j","k","l","m","n","o","p","q","r","s","t","u","v","w","x","y","z">>
UpperChars ==
    <<"A","B","C","D","E","F","G","H","I","J","K","L","M","N","O","P","Q","R","S","T","U","V","W","X","Y","Z">>

IsDigit(c) == \E i \in 1..Len(DigitChars) : DigitChars[i] = c
DigitVal(c) == (CHOOSE i \in 1..Len(DigitChars) : DigitChars[i] = c) - 1
AllDigits(s) == Len(s) > 0 /\ \A i \in 1..Len(s) : IsDigit(s[i])

\* str.lower, on one character and on a string
Lower(c) ==
    IF \E i \in 1..Len(UpperChars) : UpperChars[i] = c
    THEN LowerChars[CHOOSE i \in 1..Len(UpperChars) : UpperChars[i] = c]
    ELSE c
LowerText(s) == [i \in 1..Len(s) |-> Lower(s[i])]
IsHex(c) == \E i \in 1..Len(HexChars) : HexChars[i] = c
HexVal(c) == (CHOOSE i \in 1..Len(HexChars) : HexChars[i] = c) - 1

RECURSIVE DigitsValue(_)
DigitsValue(s) ==
    IF s = <<>> THEN 0
    ELSE 10 * DigitsValue(SubSeq(s, 1, Len(s) - 1)) + DigitVal(s[Len(s)])

\* position of the first "." of s, or 0
RECURSIVE DotAt(_, _)
DotAt(s, i) ==
    IF i > Len(s) THEN 0
    ELSE IF s[i] = "." THEN i
    ELSE DotAt(s, i + 1)

IntPart(s) == IF DotAt(s, 1) = 0 THEN s ELSE SubSeq(s, 1, DotAt(s, 1) - 1)
FracPart(s) == IF DotAt(s, 1) = 0 THEN <<>> ELSE SubSeq(s, DotAt(s, 1) + 1, Len(s))
AllZeros(s) == \A i \in 1..Len(s) : s[i] = "0"

\* The unsigned literals the validators parse: an int is digits, optionally
\* followed by a point and zeros; a float is digits with at most one
\* fractional digit (the floats of the model are tenths).
IsIntLiteral(s) == AllDigits(IntPart(s)) /\ AllZeros(FracPart(s))
IsFloatLiteral(s) ==
    /\ AllDigits(IntPart(s))
    /\ Len(FracPart(s)) <= 1
    /\ \A i \in 1..Len(FracPart(s)) : IsDigit(FracPart(s)[i])
FloatLiteralTenths(s) ==
    10 * DigitsValue(IntPart(s)) + (IF FracPart(s) = <<>> THEN 0 ELSE DigitVal(FracPart(s)[1]))

\* the words a bool field takes for True and for False, in any case
TrueWords == {<<"1">>, <<"o","n">>, <<"t">>, <<"t","r","u","e">>, <<"y">>, <<"y","e","s">>}
FalseWords == {<<"0">>, <<"o","f","f">>, <<"f">>, <<"f","a","l","s","e">>, <<"n">>, <<"n","o">>}

\* ---- the annotations' validators (pydantic, lax mode) ----

\* product.py:6  name: str
str_lenient(v) ==
    CASE v.type = "str" -> v
      [] v.type = "int" -> StrV(<<DigitChars[(v.n % 10) + 1]>>)
      [] OTHER -> Invalid
str_validator(v) == IF v.type = "str" THEN v ELSE Invalid

\* product.py:7  quantity: int
int_validator(v) ==
    CASE v.type = "int" -> v
      [] v.type = "bool" -> IntV(v.n)
      [] v.type = "float" -> IF v.n % 10 = 0 THEN IntV(v.n \div 10) ELSE Invalid
      [] v.type = "str" ->
            IF IsIntLiteral(v.text) THEN IntV(DigitsValue(IntPart(v.text))) ELSE Invalid
      [] OTHER -> Invalid

\* product.py:8  price: float
float_validator(v) ==
    CASE v.type = "float" -> v
      [] v.type = "int" -> FloatV(10 * v.n)
      [] v.type = "bool" -> FloatV(10 * v.n)
      [] v.type = "str" ->
            IF IsFloatLiteral(v.text) THEN FloatV(FloatLiteralTenths(v.text)) ELSE Invalid
      [] OTHER -> Invalid

\* product.py:9  status: bool
bool_validator(v) ==
    CASE v.type = "bool" -> v
      [] v.type = "int" -> IF v.n \in {0, 1} THEN BoolV(v.n = 1) ELSE Invalid
      [] v.type = "float" -> IF v.n \in {0, 10} THEN BoolV(v.n = 10) ELSE Invalid
      [] v.type = "str" ->
            IF LowerText(v.text) \in TrueWords THEN BoolV(TRUE)
            ELSE IF LowerText(v.text) \in FalseWords THEN BoolV(FALSE)
            ELSE Invalid
      [] OTHER -> Invalid

\* UUID(str): the hyphens are dropped, the digits lower-cased; 32 hex digits
RECURSIVE DropHyphens(_)
DropHyphens(s) ==
    IF s = <<>> THEN <<>>
    ELSE IF s[1] = "-" THEN DropHyphens(Tail(s))
    ELSE <<Lower(s[1])>> \o DropHyphens(Tail(s))

IsHexDigits(hex) ==
    /\ Len(hex) = 32
    /\ \A i \in 1..32 : IsHex(hex[i])

\* UUID.version: the 13th hex digit
Version(u) == HexVal(u.text[13])

\* base.py:7  id: UUID4
uuid4_validator(v) ==
    CASE v.type = "UUID" -> IF Version(v) = 4 THEN v ELSE Invalid
      [] v.type = "str" ->
            LET hex == DropHyphens(v.text) IN
            IF IsHexDigits(hex) /\ Version(UuidV(hex)) = 4 THEN UuidV(hex) ELSE Invalid
      [] OTHER -> Invalid

\* base.py:8-9  created_at: datetime, updated_at: datetime
datetime_validator(v) == IF v.type = "datetime" THEN v ELSE Invalid

(***************************************************************************)
(* The schema classes                                                      *)
(***************************************************************************)
\* base.py:7-9
BaseFields == {"id", "created_at", "updated_at"}
\* product.py:5-9  ProductIn(BaseSchemaMixin)
ProductFields == {"name", "quantity", "price", "status"}

FieldsOf(cls) == IF cls = "BaseSchemaMixin" THEN BaseFields ELSE BaseFields \cup ProductFields

\* product.py:6-9  Field(...): the fields with no default
RequiredButStatus(cls) == IF cls = "BaseSchemaMixin" THEN {} ELSE ProductFields \ {"status"}
Required(cls) == IF cls = "BaseSchemaMixin" THEN {} ELSE ProductFields

Validator(f, v) ==
    CASE f = "id" -> uuid4_validator(v)
      [] f \in {"created_at", "updated_at"} -> datetime_validator(v)
      [] f = "name" -> str_validator(v)
      [] f = "quantity" -> int_validator(v)
      [] f = "price" -> float_validator(v)
      [] f = "status" -> bool_validator(v)

\* conftest.py:32  the fixed identifier
product_id == UuidV(PID)
\* uuid.uuid4() draws a version-4 identifier
Uuid4Draws == {UuidV(GEN1), UuidV(GEN2)}

\* base.py:7-9  the default factories; uid is uuid.uuid4()'s draw, t1 and t2
\* are the clock as datetime.now(UTC) reads it for created_at and for updated_at
Default(f, uid, t1, t2) ==
    CASE f = "id" -> uid
      [] f = "created_at" -> DatetimeV(t1, "UTC")
      [] f = "updated_at" -> DatetimeV(t2, "UTC")
      [] OTHER -> BoolV(FALSE)

\* the fields whose default is taken: those not passed (and not required)
DefaultsEverywhere(cls, kw) == FieldsOf(cls) \ Required(cls)
Defaulted(cls, kw) == {f \in FieldsOf(cls) \ Required(cls) : kw[f] = Missing}

\* the value a field ends with: its default, or its validated input
FieldValue(cls, kw, f, uid, t1, t2) ==
    IF f \in Defaulted(cls, kw) THEN Default(f, uid, t1, t2)
    ELSE IF kw[f] = Missing THEN Invalid
    ELSE Validator(f, kw[f])

\* BaseModel.__init__: every field is validated; one error rejects the input
NoResult == [status |-> "none", errors |-> {}, fields |-> <<>>]
Construct(cls, kw, uid, t1, t2) ==
    LET values == [f \in FieldsOf(cls) |-> FieldValue(cls, kw, f, uid, t1, t2)]
        errs == {f \in FieldsOf(cls) : values[f] = Invalid}
    IN  IF errs = {}
        THEN [status |-> "ok", errors |-> {}, fields |-> values]
        ELSE [status |-> "ValidationError", errors |-> errs, fields |-> <<>>]

(***************************************************************************)
(* The inputs of the constructions                                         *)
(***************************************************************************)
IdInputs ==
    {Missing, product_id, UuidV(V1), StrV(PIDSTR), StrV(PIDUPPER),
     StrV(<<"a","b","c">>), IntV(5)}
TimeInputs ==
    {Missing, DatetimeV(1, "UTC"), DatetimeV(1, "naive"), DatetimeV(1, "+03:00"),
     StrV(<<"a","b","c">>)}
BusinessInputs ==
    {Missing, StrV(<<"a","b">>), StrV(<<"5">>), StrV(<<"y","e","s">>), IntV(5), IntV(1),
     FloatV(15), FloatV(20), BoolV(TRUE), NoneV}

BaseKwargs == [id : IdInputs, created_at : TimeInputs, updated_at : TimeInputs]
ProductKwargs ==
    [id : {Missing, product_id}, created_at : {Missing},
     updated_at : {Missing}, name : BusinessInputs, quantity : BusinessInputs,
     price : BusinessInputs, status : BusinessInputs]

\* tests/factories.py product_data(): the four business fields, well typed
product_data ==
    [name : {StrV(<<"a","b">>)}, quantity : {IntV(5), IntV(1)}, price : {FloatV(15)},
     status : {BoolV(TRUE), BoolV(FALSE)}]

SessionIdle ==
    /\ pc = "idle"
    /\ testIdx = 0
    /\ client = "none"
    /\ created = 0
    /\ closed = 0
    /\ db = [c \in Names |-> {}]
    /\ snapshot = db
    /\ collections_names = <<>>
    /\ idx = 0
    /\ outcome = "none"
    /\ teardown = "none"
    /\ raised = "none"
    /\ failedAt = 0
    /\ deleteCalls = 0

SchemaInit ==
    /\ SessionIdle
    /\ \/ call = "BaseSchemaMixin" /\ kwargs \in BaseKwargs
       \/ call = "ProductIn" /\ kwargs \in ProductKwargs
       \/ call = "product_in" /\ kwargs = <<>>
    /\ result = NoResult
    /\ factories = {}
    /\ clock = 0

\* The construction runs: the default factories of the fields not passed run
\* in field order (id, created_at, updated_at), each datetime.now(UTC) reading
\* the clock when it runs; the clock does not go back.
Build(cls, kw) ==
    \E uid \in IF "id" \in Defaulted(cls, kw) THEN Uuid4Draws ELSE {product_id} :
      \E t1 \in IF "created_at" \in Defaulted(cls, kw) THEN clock..MaxClock ELSE {clock} :
        \E t2 \in IF "updated_at" \in Defaulted(cls, kw) THEN t1..MaxClock ELSE {t1} :
            /\ result' = Construct(cls, kw, uid, t1, t2)
            /\ factories' = Defaulted(cls, kw)
            /\ clock' = t2

\* base.py:6-9  BaseSchemaMixin(**kwargs)
ConstructBase ==
    /\ UNCHANGED sessionVars
    /\ call = "BaseSchemaMixin"
    /\ result = NoResult
    /\ Build("BaseSchemaMixin", kwargs)
    /\ UNCHANGED <<call, kwargs>>

\* product.py:5-9  ProductIn(**kwargs)
ConstructProductIn ==
    /\ UNCHANGED sessionVars
    /\ call = "ProductIn"
    /\ result = NoResult
    /\ Build("ProductIn", kwargs)
    /\ UNCHANGED <<call, kwargs>>

\* conftest.py:35-37  ProductIn(**product_data(), id=product_id)
ProductInFixture ==
    /\ UNCHANGED sessionVars
    /\ call = "product_in"
    /\ result = NoResult
    /\ \E data \in product_data :
        LET kw == [f \in FieldsOf("ProductIn") |->
                      IF f \in DOMAIN data THEN data[f]
                      ELSE IF f = "id" THEN product_id
                      ELSE Missing] IN
        /\ kwargs' = kw
        /\ Build("ProductIn", kw)
    /\ UNCHANGED call

SchemaNext ==
    \/ ConstructBase
    \/ ConstructProductIn
    \/ ProductInFixture

SchemaSpec == SchemaInit /\ [][SchemaNext]_vars

(***************************************************************************)
(* Properties of the session                                               *)
(***************************************************************************)
NonSystem == {c \in Names : ~startswith(c, SystemPrefix)}
System == Names \ NonSystem

\* delete_many calls a cleanup makes up to and including position n of the listing
CallsUpTo(n) == Cardinality({j \in 1..n : collections_names[j] \in NonSystem})

\* C1: after every test, whatever its outcome, once the clear_collections
\* teardown has finished every collection whose name does not begin with
\* "system" holds zero documents.
C1_AllCleared ==
    pc = "finished" => \A c \in NonSystem : db[c] = {}

\* C2: the cleanup never changes a collection whose name starts with "system":
\* while it runs and after it has ended, with or without an error, each such
\* collection holds the documents it held when the cleanup started.
C2_SystemUntouched ==
    pc \in {"list", "loop", "finished", "done"} =>
        \A c \in System : db[c] = snapshot[c]

C2_Witness ==
    /\ pc = "finished"
    /\ raised # "none"
    /\ deleteCalls >= 2
    /\ \E c \in System : db[c] # {}

\* C3: an error raised while listing the collections or while deleting the
\* documents of one is caught inside clear_collections: the teardown ends
\* normally and the test's report is the one its own outcome gives.
C3_ErrorsSwallowed ==
    pc \in {"finished", "done"} =>
        /\ teardown = "passed"
        /\ outcome \in Outcomes

C3_Witness ==
    /\ pc = "finished"
    /\ raised = "ConfigurationError"
    /\ failedAt = 0
    /\ outcome = "passed"

\* C4: the client is created once and closed once per session, the close comes
\* after the last test and its cleanup, and every test body and cleanup step
\* runs with the client created and not yet closed.
C4_OneClientPerSession ==
    /\ created <= 1
    /\ closed <= 1
    /\ pc \in {"body", "list", "loop", "finished"} =>
            client = "open" /\ created = 1 /\ closed = 0
    /\ closed = 1 => pc = "done"
    /\ pc = "done" => created = 1 /\ closed = 1 /\ client = "closed"

C4_Witness ==
    /\ pc = "done"
    /\ testIdx >= 2

\* C10: the cleanup loop stops at the first error: when delete_many raises for
\* one collection, the non-system collections listed before it are empty,
\* every collection listed after it keeps all of its documents, delete_many
\* was called once per collection up to the failing one and never again, and
\* the database is as the cleanup left it when the next test starts.
C10_StopsAtFirstError ==
    /\ (pc = "finished" /\ failedAt > 0) =>
          /\ \A j \in 1..(failedAt - 1) :
                collections_names[j] \in NonSystem => db[collections_names[j]] = {}
          /\ \A j \in (failedAt + 1)..Len(collections_names) :
                db[collections_names[j]] = snapshot[collections_names[j]]
          /\ deleteCalls = CallsUpTo(failedAt)
          /\ idx = failedAt
    /\ (pc \in {"setup", "body"} /\ testIdx > 1) => db = snapshot

C10_Witness ==
    /\ pc = "finished"
    /\ failedAt > 0
    /\ \E j \in 1..(failedAt - 1) :
          collections_names[j] \in NonSystem /\ snapshot[collections_names[j]] # {}
    /\ \E j \in (failedAt + 1)..Len(collections_names) :
          collections_names[j] \in NonSystem /\ db[collections_names[j]] # {}

(***************************************************************************)
(* Properties of the schema classes                                        *)
(***************************************************************************)
Constructed == result.status # "none"
Accepted == result.status = "ok"
Rejected == result.status = "ValidationError"
IsProductCall == call \in {"ProductIn", "product_in"}

\* C5: constructing a ProductIn without name, quantity, price or status is
\* rejected, for each of the four fields and whatever the other three are.
C5_MissingFieldRejected ==
    (IsProductCall /\ Constructed) =>
        \A f \in ProductFields :
            kwargs[f] = Missing => Rejected /\ f \in result.errors

C5_Witness ==
    /\ call = "ProductIn"
    /\ Rejected
    /\ result.errors = {"status"}
    /\ kwargs.status = Missing
    /\ kwargs.name = StrV(<<"a","b">>)
    /\ kwargs.quantity = IntV(5)
    /\ kwargs.price = FloatV(15)

\* C6 as stated: with an explicit id supplied, the record's id equals the
\* supplied value exactly and no default identifier is generated.
C6_IdEqualsSupplied ==
    (Accepted /\ kwargs.id # Missing) =>
        /\ result.fields.id = kwargs.id
        /\ "id" \notin factories

\* C6 as amended: with an explicit id supplied, no default identifier is
\* generated; the record's id equals the supplied value exactly when that is
\* a UUID object, and is the UUID a supplied string spells (hyphens dropped,
\* digits lower-cased) when it is a string. The product_in fixture is accepted
\* with id ddc287ef-ab93-4ef5-8336-78883c422f6a.
C6_IdIsSuppliedUuid ==
    /\ (Accepted /\ kwargs.id # Missing) =>
          /\ "id" \notin factories
          /\ kwargs.id.type \in {"UUID", "str"}
          /\ kwargs.id.type = "UUID" => result.fields.id = kwargs.id
          /\ kwargs.id.type = "str" =>
                /\ result.fields.id.type = "UUID"
                /\ result.fields.id.text = DropHyphens(kwargs.id.text)
    /\ (call = "product_in" /\ Constructed) =>
          Accepted /\ result.fields.id = UuidV(PID)

C6_Witness ==
    /\ call = "product_in"
    /\ Accepted
    /\ kwargs.id = product_id
    /\ result.fields.id = UuidV(PID)
    /\ "id" \notin factories

\* C7: with neither created_at nor updated_at supplied, the record's
\* created_at equals its updated_at, whatever the clock does between the two
\* defaults.
C7_CreatedEqualsUpdated ==
    (Accepted /\ kwargs.created_at = Missing /\ kwargs.updated_at = Missing) =>
        result.fields.created_at = result.fields.updated_at

\* C8: created_at and updated_at of every constructed record are timezone-aware
\* UTC timestamps, whether defaulted or supplied.
C8_TimestampsAreUtc ==
    Accepted =>
        /\ result.fields.created_at.text = <<"UTC">>
        /\ result.fields.updated_at.text = <<"UTC">>

\* the structural type each business field declares
OfDeclaredType(f, v) ==
    CASE f = "name" -> v.type = "str"
      [] f = "quantity" -> v.type = "int"
      [] f = "price" -> v.type \in {"float", "int"}
      [] f = "status" -> v.type = "bool"

\* C9 as stated: a ProductIn whose name, quantity, price or status is supplied
\* with a value of another structural type is rejected; nothing is converted.
C9_WrongTypeRejected ==
    (IsProductCall /\ Constructed) =>
        \A f \in ProductFields :
            (kwargs[f] # Missing /\ ~OfDeclaredType(f, kwargs[f])) => Rejected

\* the values of another type that no conversion takes to the field's type
Unconvertible(f, v) ==
    CASE f = "name" -> v.type # "str"
      [] f = "quantity" ->
            \/ v.type = "NoneType"
            \/ v.type = "str" /\ ~IsIntLiteral(v.text)
            \/ v.type = "float" /\ v.n % 10 # 0
      [] f = "price" ->
            \/ v.type = "NoneType"
            \/ v.type = "str" /\ ~IsFloatLiteral(v.text)
      [] f = "status" ->
            \/ v.type = "NoneType"
            \/ v.type = "int" /\ v.n \notin {0, 1}
            \/ v.type = "float" /\ v.n \notin {0, 10}
            \/ v.type = "str" /\ LowerText(v.text) \notin (TrueWords \cup FalseWords)

\* C9 as amended: among str, int, float, bool and None values, a ProductIn is
\* rejected when a supplied value cannot be converted to its field's type: a
\* name that is not a string; a quantity that is None, a string spelling no
\* integer or a float with a fractional part; a price that is None or a
\* string spelling no number; a status that is None, a number other than 0
\* and 1 or a string that is no boolean word. The other values of these types
\* are converted and accepted, and an accepted record holds a str name, an
\* int quantity, a float price and a bool status.
C9_UnconvertibleRejected ==
    (IsProductCall /\ Constructed) =>
        /\ \A f \in ProductFields :
              (kwargs[f] # Missing /\ Unconvertible(f, kwargs[f])) =>
                    Rejected /\ f \in result.errors
        /\ (\A f \in ProductFields :
              kwargs[f] # Missing /\ ~Unconvertible(f, kwargs[f])) => Accepted
        /\ Accepted =>
              /\ result.fields.name.type = "str"
              /\ result.fields.quantity.type = "int"
              /\ result.fields.price.type = "float"
              /\ result.fields.status.type = "bool"

C9_Witness ==
    /\ call = "ProductIn"
    /\ Rejected
    /\ result.errors = {"name", "quantity"}
    /\ kwargs.name = IntV(5)
    /\ kwargs.quantity = StrV(<<"a","b">>)
    /\ kwargs.price = IntV(5)
    /\ kwargs.status = StrV(<<"y","e","s">>)
====
